---- MODULE Spec2Model ----
(***************************************************************************)
(* renderStillFlow (packages/cli/src/render-flows/still.ts): one still     *)
(* render job.  The flow is an async function: it starts collaborators,    *)
(* suspends at each `await`, and resumes when the awaited promise settles. *)
(* Collaborators settle their promises and call back into the flow         *)
(* (bundler progress, directory creation, asset downloads) as environment  *)
(* steps.                                                                  *)
(***************************************************************************)
EXTENDS Integers, Sequences, FiniteSets, TLC

\* ---------------------------------------------------------------- bounds
\* collaborator progress callbacks (bundler + downloads) delivered per job
MaxCallbacks == 2
\* largest progress value a collaborator reports
MaxPct == 1
\* largest Date.now() - renderStart
MaxElapsed == 1
\* how often the caller fires its cleanup hook
MaxRuns == 2

\* ------------------------------------------------------------ nullables
Null == <<>>
Some(v) == <<v>>

VARIABLES
    pc,               \* where renderStillFlow is suspended
    stage,            \* each collaborator call: idle/running/ok/failed/cancelled
    cancelled,        \* the cancelSignal has fired
    cancelledAtStart, \* the cancelSignal had fired when the job started
    registry,         \* callbacks handed to addCleanupCallback, in order
    quitJobs,         \* callbacks handed to registerCleanupJob, in order
    ranAll,           \* the registry has been run
    runs,             \* number of times the caller fired the cleanup hook
    released,         \* cleanup callbacks executed, in execution order
    dirCreated,       \* the bundler created its temporary directory
    aggregate,        \* AggregateRenderProgress
    deliveries,       \* progress deliveries to the sinks, in delivery order
    produced,         \* number of updateRenderProgress calls so far
    callbacks,        \* number of collaborator progress callbacks so far
    overwrite,        \* job parameter
    quiet,            \* quietFlagProvided()
    outputExists,     \* file system: the absolute output file exists
    parentExists,     \* file system: the output's parent directory exists
    exists,           \* the local `exists` (line 266), Null until assigned
    mkdirCalled,      \* mkdirSync (line 268) has been invoked
    result,           \* what renderStillFlow's promise settled with
    summary,          \* the final Log.info line (glyph), Null until printed
    formatInputs,     \* imageFormatFromUi, --image-format, config, out name
    formatDecision,   \* {format, source} of line 240, Null until decided
    relativeOutputLocation, \* line 253, Null until computed
    fsAtStart,        \* the file system as it was when this run started
    secondRun,        \* this is the identical second run of the job
    firstGlyph        \* the glyph the first run printed (second run only)

vars == <<pc, stage, cancelled, cancelledAtStart, registry, quitJobs, ranAll,
          runs, released, dirCreated, aggregate, deliveries, produced,
          callbacks, overwrite, quiet, outputExists, parentExists, exists,
          mkdirCalled, result, summary, formatInputs, formatDecision,
          relativeOutputLocation, fsAtStart, secondRun, firstGlyph>>

\* What no step of one run changes.
runConstants == <<formatInputs, fsAtStart, secondRun, firstGlyph>>

\* The collaborator calls of the flow, in source order.
Stages == {"ensureBrowser", "openBrowser", "bundle", "prepareServer",
           "composition", "render"}

\* Calls the flow suspends on right where it makes them (the `await`s at
\* lines 149, 167, 199, 218, 322).  internalOpenBrowser (line 156) is not
\* among them: its promise is kept in browserInstance and awaited at 215.
AwaitedAtCall == {"ensureBrowser", "bundle", "prepareServer", "composition",
                  "render"}

Running(s) == stage[s] = "running"
Succeeded(s) == stage[s] = "ok"

\* A fault: a missing `await`, the flow goes on once the call is made.
SettledOrStarted(s) == stage[s] # "idle"
\* `await p` resumes the flow only once p is settled.
Settled(s) == stage[s] \in {"ok", "failed", "cancelled"}

\* result.origin is the place the flow threw from; result.stageName is the
\* stage name the thrown error itself carries ("none": it carries none).
NoResult ==
    [status |-> "pending", error |-> "none", origin |-> "none",
     stageName |-> "none"]

\* A rejected await rethrows the collaborator's rejection unchanged.
Rejection(s) ==
    [status |-> "threw",
     error |-> IF stage[s] = "cancelled" THEN "CancellationError"
                                         ELSE "CollaboratorError",
     origin |-> s,
     stageName |-> "none"]

\* initialAggregateRenderProgress(): nothing reported yet.
initialAggregateRenderProgress ==
    [bundling |-> Null, copyingState |-> Null, rendering |-> Null,
     downloads |-> <<>>]

\* ------------------------------------------------------- format inputs
Formats == {"png", "jpeg", "webp"}

\* A file name is <<base, extension>> or <<base>>.
FileNames == {<<"out", e>> : e \in Formats \cup {"txt"}} \cup {<<"out">>}

Nullable(S) == {Null} \cup {Some(x) : x \in S}

AllFormatInputs ==
    [imageFormatFromUi : Nullable(Formats),
     cliImageFormat : Nullable(Formats),
     configImageFormat : Nullable(Formats),
     passedOutput : Nullable(FileNames)]

\* A job with no format and no output location given anywhere.
NothingPassed ==
    [imageFormatFromUi |-> Null, cliImageFormat |-> Null,
     configImageFormat |-> Null, passedOutput |-> Null]

\* The state when renderStillFlow is called (start = "start"), with the
\* format inputs drawn from inputs.
InitWith(inputs, start) ==
    /\ pc = start
    /\ formatInputs \in inputs
    /\ formatDecision = Null
    /\ relativeOutputLocation = Null
    /\ secondRun = FALSE
    /\ firstGlyph = Null
    /\ stage = [s \in Stages |-> "idle"]
    /\ cancelled \in BOOLEAN
    /\ cancelledAtStart = cancelled
    /\ registry = <<>>
    /\ quitJobs = <<>>
    /\ ranAll = FALSE
    /\ runs = 0
    /\ released = <<>>
    /\ dirCreated = FALSE
    /\ aggregate = initialAggregateRenderProgress
    /\ deliveries = <<>>
    /\ produced = 0
    /\ callbacks = 0
    /\ overwrite \in BOOLEAN
    /\ quiet \in BOOLEAN
    /\ outputExists \in BOOLEAN
    /\ parentExists \in BOOLEAN
    /\ (outputExists => parentExists)
    /\ fsAtStart = [output |-> outputExists, parent |-> parentExists]
    /\ exists = Null
    /\ mkdirCalled = FALSE
    /\ result = NoResult
    /\ summary = Null

Init == InitWith({NothingPassed}, "start")

\* ------------------------------------------------------ progress fan-out
Frames(prog) == IF prog.rendering = Null THEN 0 ELSE prog.rendering[1].frames

\* makeRenderingAndStitchingProgress({prog}): text and overall progress, a
\* pure function of the aggregate it is handed.
makeRenderingAndStitchingProgress(prog) ==
    [message |-> <<prog.bundling, prog.copyingState, prog.rendering,
                   prog.downloads>>,
     progress |-> Frames(prog)]

\* renderProgress.update(text): the console line; prints nothing when quiet.
ConsoleUpdate(q, n, text) ==
    IF q THEN <<>>
         ELSE <<[sink |-> "console", seq |-> n, text |-> text, event |-> Null]>>

\* onProgress({message, value: progress, ...aggregate}) (line 140)
ProgressEvent(prog) ==
    LET r == makeRenderingAndStitchingProgress(prog) IN
    [message |-> r.message, value |-> r.progress, bundling |-> prog.bundling,
     copyingState |-> prog.copyingState, rendering |-> prog.rendering,
     downloads |-> prog.downloads]

OnProgress(n, prog) ==
    <<[sink |-> "onProgress", seq |-> n,
       text |-> makeRenderingAndStitchingProgress(prog).message,
       event |-> Some(ProgressEvent(prog))]>>

\* Faults of updateRenderProgress: the observer is only notified when the
\* console prints; the console line is drawn, late, from the aggregate of
\* the previous update.
updateRenderProgressOnlyWhenPrinted(prog, old, printToConsole, q, n) ==
    IF printToConsole /\ ~q
        THEN ConsoleUpdate(q, n,
                 makeRenderingAndStitchingProgress(prog).message)
             \o OnProgress(n, prog)
        ELSE <<>>

updateRenderProgressStaleConsole(prog, old, printToConsole, q, n) ==
    OnProgress(n, prog)
    \o (IF printToConsole
          THEN ConsoleUpdate(q, n - 1,
                   makeRenderingAndStitchingProgress(old).message)
          ELSE <<>>)

\* updateRenderProgress (lines 123-141): what one call delivers, in order.
\* prog is the aggregate at the call, old the aggregate at the previous
\* call, n the number of this update.
updateRenderProgress(prog, old, printToConsole, q, n) ==
    (IF printToConsole
       THEN ConsoleUpdate(q, n,
                makeRenderingAndStitchingProgress(prog).message)
       ELSE <<>>)
    \o OnProgress(n, prog)

\* The aggregate the previous update was made from.
LastReported ==
    LET cb == SelectSeq(deliveries, LAMBDA d : d.sink = "onProgress") IN
    IF cb = <<>> THEN initialAggregateRenderProgress
    ELSE LET e == cb[Len(cb)].event[1] IN
         [bundling |-> e.bundling, copyingState |-> e.copyingState,
          rendering |-> e.rendering, downloads |-> e.downloads]

\* A mutation of the aggregate followed by updateRenderProgress.
Report(prog, printToConsole) ==
    /\ aggregate' = prog
    /\ produced' = produced + 1
    /\ deliveries' = deliveries \o
         updateRenderProgress(prog, LastReported, printToConsole, quiet,
                              produced + 1)

\* ------------------------------------------------------------- the flow
\* A fault: a rejection is swallowed and the flow goes on.
RejectedIgnored(s) == FALSE

\* An awaited promise that rejected makes the `await` throw.
Rejected(s) == stage[s] \in {"failed", "cancelled"}

Exited == pc \in {"done", "failed"}

\* A fault: the flow runs the callbacks it registered when it exits.
CleanupOnExitRunsAll(reg, rel) ==
    rel \o [i \in 1..Len(reg) |-> reg[Len(reg) + 1 - i]]

\* What the flow itself has released when it returns or throws: it has no
\* try/finally and never calls a callback it registered (lines 211-216),
\* so nothing beyond what was released before.
CleanupOnExit(reg, rel) == rel

\* The last conjunct of every step of the flow.
FlowExit ==
    released' = IF pc' \in {"done", "failed"}
                  THEN CleanupOnExit(registry', released)
                  ELSE released

\* `throw` out of renderStillFlow: nothing after it runs.
Throw(s) ==
    /\ pc' = "failed"
    /\ result' = Rejection(s)

Start(ss) == stage' = [s \in Stages |-> IF s \in ss THEN "running" ELSE stage[s]]

\* Cleanup callbacks in the order the flow registers them: after
\* prepareServer resolved (lines 211, 213) and after the browser promise
\* resolved (line 216).
\* (ServerStageCleanupsBundleFirst: a fault, lines 211 and 213 swapped.)
ServerStageCleanupsBundleFirst == <<"cleanupBundle", "closeServer">>
ServerStageCleanups == <<"closeServer", "cleanupBundle">>
BrowserStageCleanups == <<"closeBrowser">>

\* lines 107-154: set-up, then await internalEnsureBrowser.  The
\* cancelSignal is only handed to the console output (118).
Begin ==
    /\ pc = "start"
    /\ Start({"ensureBrowser"})
    /\ pc' = "ensureBrowser"
    /\ UNCHANGED <<cancelled, cancelledAtStart, registry, quitJobs, ranAll,
                   runs, released, dirCreated, aggregate, deliveries,
                   produced, callbacks, overwrite, quiet, outputExists,
                   parentExists, exists, mkdirCalled, result, summary>>
    /\ UNCHANGED <<runConstants, formatDecision, relativeOutputLocation>>

\* lines 156-197: internalOpenBrowser is called and not awaited, then
\* bundleOnCliOrTakeServeUrl is called and awaited.
AfterEnsureBrowser ==
    /\ pc = "ensureBrowser"
    /\ Settled("ensureBrowser")
    /\ IF Rejected("ensureBrowser")
         THEN Throw("ensureBrowser") /\ UNCHANGED stage
         ELSE /\ Start({"openBrowser", "bundle"})
              /\ pc' = "bundle"
              /\ UNCHANGED result
    /\ UNCHANGED <<cancelled, cancelledAtStart, registry, quitJobs, ranAll,
                   runs, dirCreated, aggregate, deliveries,
                   produced, callbacks, overwrite, quiet, outputExists,
                   parentExists, exists, mkdirCalled, summary>>
    /\ FlowExit
    /\ UNCHANGED <<runConstants, formatDecision, relativeOutputLocation>>

\* lines 199-209: await prepareServer.
AfterBundle ==
    /\ pc = "bundle"
    /\ Settled("bundle")
    /\ IF Rejected("bundle")
         THEN Throw("bundle") /\ UNCHANGED stage
         ELSE /\ Start({"prepareServer"})
              /\ pc' = "prepareServer"
              /\ UNCHANGED result
    /\ UNCHANGED <<cancelled, cancelledAtStart, registry, quitJobs, ranAll,
                   runs, dirCreated, aggregate, deliveries,
                   produced, callbacks, overwrite, quiet, outputExists,
                   parentExists, exists, mkdirCalled, summary>>
    /\ FlowExit
    /\ UNCHANGED <<runConstants, formatDecision, relativeOutputLocation>>

\* lines 211-215: register the server's and the bundle's cleanup, then
\* await the browser promise.
AfterPrepareServer ==
    /\ pc = "prepareServer"
    /\ Settled("prepareServer")
    /\ IF Rejected("prepareServer")
         THEN Throw("prepareServer") /\ UNCHANGED registry
         ELSE /\ registry' = registry \o ServerStageCleanups
              /\ pc' = "awaitBrowser"
              /\ UNCHANGED result
    /\ UNCHANGED <<stage, cancelled, cancelledAtStart, quitJobs, ranAll,
                   runs, dirCreated, aggregate, deliveries,
                   produced, callbacks, overwrite, quiet, outputExists,
                   parentExists, exists, mkdirCalled, summary>>
    /\ FlowExit
    /\ UNCHANGED <<runConstants, formatDecision, relativeOutputLocation>>

\* lines 215-238: the browser promise settles; register its cleanup and
\* await getCompositionWithDimensionOverride.  A browser promise that
\* rejected while the flow was suspended elsewhere surfaces here.
AfterOpenBrowser ==
    /\ pc = "awaitBrowser"
    /\ Settled("openBrowser")
    /\ IF Rejected("openBrowser")
         THEN Throw("openBrowser") /\ UNCHANGED <<registry, stage>>
         ELSE /\ registry' = registry \o BrowserStageCleanups
              /\ Start({"composition"})
              /\ pc' = "composition"
              /\ UNCHANGED result
    /\ UNCHANGED <<cancelled, cancelledAtStart, quitJobs, ranAll,
                   runs, dirCreated, aggregate, deliveries,
                   produced, callbacks, overwrite, quiet, outputExists,
                   parentExists, exists, mkdirCalled, summary>>
    /\ FlowExit
    /\ UNCHANGED <<runConstants, formatDecision, relativeOutputLocation>>

\* getAndValidateAbsoluteOutputFile(relativeOutputLocation, overwrite):
\* refuses an output file that exists unless overwrite is set.
getAndValidateAbsoluteOutputFile(ex, ow) ==
    IF ex /\ ~ow THEN "OutputExistsError" ELSE "ok"

\* A fault: the parent directory is created before the output is validated.
OutputStepsMkdirFirst(ex, ow) ==
    IF getAndValidateAbsoluteOutputFile(ex, ow) # "ok"
        THEN [threw |-> TRUE, exists |-> Null, mkdir |-> TRUE]
        ELSE [threw |-> FALSE, exists |-> Some(ex), mkdir |-> TRUE]

\* A fault: the parent directory is never created.
OutputStepsNoMkdir(ex, ow) ==
    IF getAndValidateAbsoluteOutputFile(ex, ow) # "ok"
        THEN [threw |-> TRUE, exists |-> Null, mkdir |-> FALSE]
        ELSE [threw |-> FALSE, exists |-> Some(ex), mkdir |-> FALSE]

\* lines 261-270, in order: validate (may throw), existsSync, mkdirSync.
OutputSteps(ex, ow) ==
    IF getAndValidateAbsoluteOutputFile(ex, ow) # "ok"
        THEN [threw |-> TRUE, exists |-> Null, mkdir |-> FALSE]
        ELSE [threw |-> FALSE, exists |-> Some(ex), mkdir |-> TRUE]

\* A fault: the record set before the render already reads complete.
RenderingStartedAsDone ==
    [frames |-> 1, doneIn |-> Some(0), totalFrames |-> 1,
     timeRemainingInMilliseconds |-> Null]

\* aggregate.rendering before the render (lines 300-305)
RenderingStarted ==
    [frames |-> 0, doneIn |-> Null, totalFrames |-> 1,
     timeRemainingInMilliseconds |-> Null]

\* Faults: the final record keeps doneIn null; the final record leaves the
\* frame count at 0.
RenderingDoneNoDoneIn(t) ==
    [frames |-> 1, doneIn |-> Null, totalFrames |-> 1,
     timeRemainingInMilliseconds |-> Null]

RenderingDoneNoFrame(t) ==
    [frames |-> 0, doneIn |-> Some(t), totalFrames |-> 1,
     timeRemainingInMilliseconds |-> Null]

\* aggregate.rendering after the render (lines 355-360); t is
\* Date.now() - renderStart.
RenderingDone(t) ==
    [frames |-> 1, doneIn |-> Some(t), totalFrames |-> 1,
     timeRemainingInMilliseconds |-> Null]

\* A fault: the two glyphs the wrong way round.
GlyphSwapped(ex) == IF ex THEN "+" ELSE "o"

\* line 369: exists ? 'o' : '+'
Glyph(ex) == IF ex THEN "o" ELSE "+"

\* ------------------------------------------------------ format decision
\* The still format a file name's extension names, if any.
ExtensionFormat(name) ==
    IF name # Null /\ Len(name[1]) = 2 /\ name[1][2] \in Formats
        THEN Some(name[1][2]) ELSE Null

\* determineFinalStillImageFormat: the first defined candidate in the
\* order explicit override (from the caller, then the CLI flag), project
\* default, extension of the given output name, built-in fallback.
determineFinalStillImageFormat(a) ==
    IF a.fromUi # Null
        THEN [format |-> a.fromUi[1], source |-> "explicit override"]
    ELSE IF a.cliFlag # Null
        THEN [format |-> a.cliFlag[1], source |-> "explicit override"]
    ELSE IF a.configImageFormat # Null
        THEN [format |-> a.configImageFormat[1], source |-> "project default"]
    ELSE IF ExtensionFormat(a.outName) # Null
        THEN [format |-> ExtensionFormat(a.outName)[1],
              source |-> "output filename"]
    ELSE [format |-> "png", source |-> "fallback"]

\* A fault: the CLI flag and the configured default are passed crosswise.
FormatArgumentsCrossed(in) ==
    [cliFlag |-> in.configImageFormat, configImageFormat |-> in.cliImageFormat,
     downloadName |-> Null, outName |-> in.passedOutput, isLambda |-> FALSE,
     fromUi |-> in.imageFormatFromUi]

\* The argument of determineFinalStillImageFormat (lines 240-251).
FormatArguments(in) ==
    [cliFlag |-> in.cliImageFormat, configImageFormat |-> in.configImageFormat,
     downloadName |-> Null, outName |-> in.passedOutput, isLambda |-> FALSE,
     fromUi |-> in.imageFormatFromUi]

\* The composition the resolver settles on.
CompositionId == "MyComp"

\* getOutputLocation: the given output name, else the composition id with
\* the default extension.
getOutputLocation(compositionId, defaultExtension, passed) ==
    IF passed # Null THEN passed[1] ELSE <<compositionId, defaultExtension>>

\* lines 240-259: the format decision and the relative output location.
ResolveOutputNames ==
    LET decision == determineFinalStillImageFormat(
                        FormatArguments(formatInputs)) IN
    /\ formatDecision' = Some(decision)
    /\ relativeOutputLocation' =
           Some(getOutputLocation(CompositionId, decision.format,
                                  formatInputs.passedOutput))

\* lines 240-353: resolve and validate the output, create its parent
\* directory, report rendering 0/1, then await internalRenderStill.
AfterComposition ==
    /\ pc = "composition"
    /\ Settled("composition")
    /\ IF Rejected("composition")
         THEN /\ Throw("composition")
              /\ UNCHANGED <<stage, exists, mkdirCalled, parentExists,
                             aggregate, deliveries, produced,
                             formatDecision, relativeOutputLocation>>
         ELSE LET o == OutputSteps(outputExists, overwrite) IN
              /\ ResolveOutputNames
              /\ exists' = o.exists
              /\ mkdirCalled' = o.mkdir
              /\ parentExists' = (parentExists \/ o.mkdir)
              /\ IF o.threw
                   THEN /\ pc' = "failed"
                        /\ result' = [status |-> "threw",
                                      error |-> "OutputExistsError",
                                      origin |-> "output",
                                      stageName |-> "none"]
                        /\ UNCHANGED <<stage, aggregate, deliveries, produced>>
                   ELSE /\ Report([aggregate EXCEPT
                                     !.rendering = Some(RenderingStarted)],
                                  TRUE)
                        /\ Start({"render"})
                        /\ pc' = "render"
                        /\ UNCHANGED result
    /\ UNCHANGED <<cancelled, cancelledAtStart, registry, quitJobs, ranAll,
                   runs, dirCreated, callbacks, overwrite, quiet,
                   outputExists, summary, runConstants>>
    /\ FlowExit

\* lines 355-371: report rendering 1/1 and print the summary line.
AfterRender ==
    /\ pc = "render"
    /\ Settled("render")
    /\ IF Rejected("render")
         THEN /\ Throw("render")
              /\ UNCHANGED <<aggregate, deliveries, produced, summary>>
         ELSE /\ \E t \in 0..MaxElapsed :
                    Report([aggregate EXCEPT
                              !.rendering = Some(RenderingDone(t))], TRUE)
              /\ summary' = Some(Glyph(exists[1]))
              /\ pc' = "done"
              /\ result' = [status |-> "returned", error |-> "none",
                            origin |-> "none", stageName |-> "none"]
    /\ UNCHANGED <<stage, cancelled, cancelledAtStart, registry, quitJobs,
                   ranAll, runs, dirCreated, callbacks, overwrite,
                   quiet, outputExists, parentExists, exists, mkdirCalled>>
    /\ FlowExit
    /\ UNCHANGED <<runConstants, formatDecision, relativeOutputLocation>>

\* --------------------------------------------------------- collaborators
\* How a collaborator's promise can settle.  Only internalRenderStill is
\* handed the cancelSignal (line 340).
Outcomes(s) ==
    {"ok", "failed"} \cup
    (IF s = "render" /\ cancelled THEN {"cancelled"} ELSE {})

\* A started collaborator settles its promise; a render that succeeds has
\* written the output file.
Settle ==
    \E s \in Stages : \E o \in Outcomes(s) :
        /\ Running(s)
        /\ stage' = [stage EXCEPT ![s] = o]
        /\ outputExists' = (outputExists \/ (s = "render" /\ o = "ok"))
        /\ UNCHANGED <<pc, cancelled, cancelledAtStart, registry, quitJobs,
                       ranAll, runs, released, dirCreated, aggregate,
                       deliveries, produced, callbacks, overwrite, quiet,
                       parentExists, exists, mkdirCalled, result, summary,
                       formatDecision, relativeOutputLocation>>
        /\ UNCHANGED runConstants

\* The bundler's onProgress callback (lines 172-180).
BundleProgress ==
    /\ Running("bundle")
    /\ callbacks < MaxCallbacks
    /\ callbacks' = callbacks + 1
    /\ \E bundling \in 0..MaxPct : \E copying \in BOOLEAN :
           Report([aggregate EXCEPT !.bundling = Some(bundling),
                                    !.copyingState = Some(copying)], TRUE)
    /\ UNCHANGED <<pc, stage, cancelled, cancelledAtStart, registry,
                   quitJobs, ranAll, runs, released, dirCreated, overwrite,
                   quiet, outputExists, parentExists, exists, mkdirCalled,
                   result, summary>>
    /\ UNCHANGED <<runConstants, formatDecision, relativeOutputLocation>>

\* The bundler's onDirectoryCreated callback (lines 183-187).
DirectoryCreated ==
    /\ Running("bundle")
    /\ ~dirCreated
    /\ dirCreated' = TRUE
    /\ quitJobs' = Append(quitJobs, "deleteDirectory")
    /\ UNCHANGED <<pc, stage, cancelled, cancelledAtStart, registry, ranAll,
                   runs, released, aggregate, deliveries, produced,
                   callbacks, overwrite, quiet, outputExists, parentExists,
                   exists, mkdirCalled, result, summary>>
    /\ UNCHANGED <<runConstants, formatDecision, relativeOutputLocation>>

\* onDownload (makeOnDownload, lines 313-320): the renderer announces an
\* asset download; the entry is pushed to aggregate.downloads and reported.
DownloadStarts ==
    /\ Running("render")
    /\ callbacks < MaxCallbacks
    /\ callbacks' = callbacks + 1
    /\ \E printToConsole \in BOOLEAN :
           Report([aggregate EXCEPT
                     !.downloads = Append(@, [progress |-> 0])],
                  printToConsole)
    /\ UNCHANGED <<pc, stage, cancelled, cancelledAtStart, registry,
                   quitJobs, ranAll, runs, released, dirCreated, overwrite,
                   quiet, outputExists, parentExists, exists, mkdirCalled,
                   result, summary>>
    /\ UNCHANGED <<runConstants, formatDecision, relativeOutputLocation>>

\* The per-download progress callback onDownload returned.
DownloadProgress ==
    /\ Running("render")
    /\ callbacks < MaxCallbacks
    /\ callbacks' = callbacks + 1
    /\ \E i \in 1..Len(aggregate.downloads) : \E p \in 1..MaxPct :
       \E printToConsole \in BOOLEAN :
           Report([aggregate EXCEPT !.downloads[i].progress = p],
                  printToConsole)
    /\ UNCHANGED <<pc, stage, cancelled, cancelledAtStart, registry,
                   quitJobs, ranAll, runs, released, dirCreated, overwrite,
                   quiet, outputExists, parentExists, exists, mkdirCalled,
                   result, summary>>
    /\ UNCHANGED <<runConstants, formatDecision, relativeOutputLocation>>

\* The owner of the cancelSignal cancels the job.
Cancel ==
    /\ ~cancelled
    /\ ~Exited
    /\ cancelled' = TRUE
    /\ UNCHANGED <<pc, stage, cancelledAtStart, registry, quitJobs, ranAll,
                   runs, released, dirCreated, aggregate, deliveries,
                   produced, callbacks, overwrite, quiet, outputExists,
                   parentExists, exists, mkdirCalled, result, summary>>
    /\ UNCHANGED <<runConstants, formatDecision, relativeOutputLocation>>

\* ------------------------------------------------------ cleanup registry
Reverse(q) == [i \in 1..Len(q) |-> q[Len(q) + 1 - i]]

\* CleanupRegistry.runAll(): callbacks in reverse registration order; a
\* second invocation does nothing.
RunAllCallbacks(reg, ran) == IF ran THEN <<>> ELSE Reverse(reg)

\* The caller fires its cleanup hook once the job has ended.
RunAll ==
    /\ Exited
    /\ runs < MaxRuns
    /\ runs' = runs + 1
    /\ released' = released \o RunAllCallbacks(registry, ranAll)
    /\ ranAll' = TRUE
    /\ UNCHANGED <<pc, stage, cancelled, cancelledAtStart, registry,
                   quitJobs, dirCreated, aggregate, deliveries, produced,
                   callbacks, overwrite, quiet, outputExists, parentExists,
                   exists, mkdirCalled, result, summary>>
    /\ UNCHANGED <<runConstants, formatDecision, relativeOutputLocation>>

Next ==
    \/ Begin
    \/ AfterEnsureBrowser
    \/ AfterBundle
    \/ AfterPrepareServer
    \/ AfterOpenBrowser
    \/ AfterComposition
    \/ AfterRender
    \/ Settle
    \/ BundleProgress
    \/ DirectoryCreated
    \/ DownloadStarts
    \/ DownloadProgress
    \/ Cancel
    \/ RunAll

Spec == Init /\ [][Next]_vars

\* ------------------------------------------------- the format decision
\* Lines 240-259 on their own, for every combination of format inputs.
ResolveFormat ==
    /\ pc = "format"
    /\ formatDecision = Null
    /\ ResolveOutputNames
    /\ UNCHANGED <<pc, stage, cancelled, cancelledAtStart, registry,
                   quitJobs, ranAll, runs, released, dirCreated, aggregate,
                   deliveries, produced, callbacks, overwrite, quiet,
                   outputExists, parentExists, exists, mkdirCalled, result,
                   summary, runConstants>>

FormatSpec == InitWith(AllFormatInputs, "format") /\ [][ResolveFormat]_vars

\* --------------------------------------------------------- a second run
\* The same job is run again, with the same parameters, on the file
\* system the first run left behind.
Rerun ==
    /\ pc = "done"
    /\ ~secondRun
    /\ secondRun' = TRUE
    /\ firstGlyph' = summary
    /\ fsAtStart' = [output |-> outputExists, parent |-> parentExists]
    /\ pc' = "start"
    /\ stage' = [s \in Stages |-> "idle"]
    /\ cancelled' = cancelledAtStart
    /\ registry' = <<>>
    /\ quitJobs' = <<>>
    /\ ranAll' = FALSE
    /\ runs' = 0
    /\ released' = <<>>
    /\ dirCreated' = FALSE
    /\ aggregate' = initialAggregateRenderProgress
    /\ deliveries' = <<>>
    /\ produced' = 0
    /\ callbacks' = 0
    /\ exists' = Null
    /\ mkdirCalled' = FALSE
    /\ result' = NoResult
    /\ summary' = Null
    /\ formatDecision' = Null
    /\ relativeOutputLocation' = Null
    /\ UNCHANGED <<cancelledAtStart, overwrite, quiet, outputExists,
                   parentExists, formatInputs>>

NextWithRerun == Next \/ Rerun

TwoRunsSpec == Init /\ [][NextWithRerun]_vars

\* ================================================================ claims
Range(q) == {q[i] : i \in DOMAIN q}

Resources == {"browser", "server", "bundle"}

\* The job holds the resource: the browser handle once internalOpenBrowser
\* resolved, the server once prepareServer resolved, the bundle once its
\* temporary directory was created.
Acquired(r) ==
    CASE r = "browser" -> Succeeded("openBrowser")
      [] r = "server"  -> Succeeded("prepareServer")
      [] r = "bundle"  -> dirCreated

\* Some registered callback releases the resource.
HasCleanup(r) ==
    CASE r = "browser" -> "closeBrowser" \in Range(registry)
      [] r = "server"  -> "closeServer" \in Range(registry)
      [] r = "bundle"  -> \/ "cleanupBundle" \in Range(registry)
                          \/ "deleteDirectory" \in Range(quitJobs)

\* C1: once the flow has exited (returned or thrown), every resource it
\* acquired has a registered cleanup.  Fails: the browser is opened at line
\* 156 and its cleanup registered only at line 216, so a rejection of
\* bundling, prepareServer or the browser await leaves it without one.
C1_AcquiredHaveCleanupOnExit ==
    Exited => \A r \in Resources : Acquired(r) => HasCleanup(r)

\* C2: with the cancelSignal already fired at the start, no collaborator is
\* ever called and the job ends with a CancellationError.  Fails: the flow
\* never consults the signal before a stage.
C2_PreCancelledRunsNothing ==
    cancelledAtStart =>
        /\ \A s \in Stages : stage[s] = "idle"
        /\ Exited => result.error = "CancellationError"

\* C3: when the composition is resolved and the output file exists with
\* overwrite off, the flow throws the output-exists error in that step,
\* without calling mkdirSync and without starting the render; and whenever
\* the job ended with that error, no mkdir and no render have happened.
C3_ExistingOutputRejected ==
    /\ [][(/\ pc = "composition" /\ pc' # "composition"
           /\ Succeeded("composition") /\ outputExists /\ ~overwrite)
          => /\ result'.error = "OutputExistsError"
             /\ pc' = "failed"
             /\ ~mkdirCalled'
             /\ parentExists' = parentExists
             /\ stage'["render"] = "idle"]_vars
    /\ [](result.error = "OutputExistsError"
            => ~mkdirCalled /\ stage["render"] = "idle")

C3_Witness ==
    /\ result.error = "OutputExistsError"
    /\ outputExists /\ ~overwrite /\ Succeeded("composition")

\* C4: a stage of the chain bundle -> prepareServer -> composition ->
\* render has started only if every stage before it in the chain (and
\* internalEnsureBrowser before them) has completed successfully.
C4_DependencyOrder ==
    /\ stage["bundle"] # "idle" => Succeeded("ensureBrowser")
    /\ stage["prepareServer"] # "idle" =>
           Succeeded("ensureBrowser") /\ Succeeded("bundle")
    /\ stage["composition"] # "idle" =>
           /\ Succeeded("ensureBrowser") /\ Succeeded("bundle")
           /\ Succeeded("prepareServer")
    /\ stage["render"] # "idle" =>
           /\ Succeeded("ensureBrowser") /\ Succeeded("bundle")
           /\ Succeeded("prepareServer") /\ Succeeded("composition")

C4_Witness ==
    /\ Running("render")
    /\ Succeeded("bundle") /\ Succeeded("prepareServer")
    /\ Succeeded("composition")

C6_DeliveredInProductionOrder ==
    /\ \A i, j \in DOMAIN deliveries :
           i < j =>
               /\ deliveries[i].seq <= deliveries[j].seq
               /\ deliveries[i].sink = deliveries[j].sink
                      => deliveries[i].seq < deliveries[j].seq
    /\ \A i \in DOMAIN deliveries :
           /\ deliveries[i].seq \in 1..produced
           /\ deliveries[i].seq = produced =>
                  deliveries[i].text =
                      makeRenderingAndStitchingProgress(aggregate).message

C6_Witness ==
    \E i, j, k \in DOMAIN deliveries :
        /\ i < j /\ j < k
        /\ deliveries[i].sink = "onProgress" /\ deliveries[i].seq = 1
        /\ deliveries[j].sink = "console" /\ deliveries[j].seq = 2
        /\ deliveries[k].sink = "onProgress" /\ deliveries[k].seq = 2
        /\ deliveries[i].text # deliveries[k].text

\* C7: every step that changes the aggregate ends with a call of onProgress
\* carrying the changed aggregate, also when the console prints nothing.
C7_EveryMutationReported ==
    [][aggregate' # aggregate =>
           /\ Len(deliveries') > Len(deliveries)
           /\ deliveries'[Len(deliveries')].sink = "onProgress"
           /\ deliveries'[Len(deliveries')].event =
                  Some(ProgressEvent(aggregate'))]_vars

C7_Witness ==
    /\ quiet
    /\ aggregate.bundling # Null
    /\ aggregate.rendering = Some(RenderingStarted)
    /\ aggregate.downloads # <<>>
    /\ \A i \in DOMAIN deliveries : deliveries[i].sink = "onProgress"
    /\ Len(deliveries) = 3

\* C8: whenever aggregate.rendering is set, totalFrames is 1 and doneIn is
\* non-null exactly when frames = totalFrames; from one state to the next
\* the record stays set and frames does not decrease.
C8_RenderingRecord ==
    /\ [](aggregate.rendering # Null =>
            LET r == aggregate.rendering[1] IN
            /\ r.totalFrames = 1
            /\ (r.doneIn # Null) <=> (r.frames = r.totalFrames))
    /\ [][aggregate.rendering # Null =>
            /\ aggregate'.rendering # Null
            /\ Frames(aggregate') >= Frames(aggregate)]_vars

C8_Witness ==
    /\ aggregate.rendering # Null
    /\ aggregate.rendering[1].frames = 1
    /\ aggregate.rendering[1].doneIn = Some(MaxElapsed)

DoneIn(prog) == IF prog.rendering = Null THEN Null ELSE prog.rendering[1].doneIn

\* C9: frames goes 0 -> 1 and doneIn becomes non-null in one and the same
\* step, the step in which the flow resumes from a successful render and
\* returns; afterwards the rendering record never changes again, so each
\* happens at most once, and a job that returned has both.
C9_CompletedExactlyOnce ==
    /\ [][/\ (Frames(aggregate) = 0 /\ Frames(aggregate') = 1)
              <=> (DoneIn(aggregate) = Null /\ DoneIn(aggregate') # Null)
          /\ (Frames(aggregate) = 0 /\ Frames(aggregate') = 1)
              <=> (pc = "render" /\ pc' = "done")
          /\ (pc = "render" /\ pc' = "done") => Succeeded("render")
          /\ (Frames(aggregate) = 1 \/ DoneIn(aggregate) # Null)
              => aggregate'.rendering = aggregate.rendering]_vars
    /\ [](result.status = "returned" =>
            Frames(aggregate) = 1 /\ DoneIn(aggregate) # Null)

C9_Witness ==
    /\ result.status = "returned"
    /\ Frames(aggregate) = 1
    /\ DoneIn(aggregate) # Null
    /\ runs > 0

\* C10: however often the cleanup hook has fired (at least once), every
\* registered callback has run exactly once, in reverse registration order;
\* the flow registers closeServer, cleanupBundle, closeBrowser in that
\* order, so a job that registered all three releases browser, bundle,
\* server.
C10_RunAllIdempotentReverse ==
    /\ \A i \in DOMAIN registry :
           registry[i] = <<"closeServer", "cleanupBundle", "closeBrowser">>[i]
    /\ runs = 0 => released = <<>>
    /\ runs >= 1 =>
           /\ released = Reverse(registry)
           /\ Len(registry) = 3 =>
                  released = <<"closeBrowser", "cleanupBundle", "closeServer">>

C10_Witness ==
    /\ runs >= 2
    /\ released = <<"closeBrowser", "cleanupBundle", "closeServer">>

\* C14: once the cancelSignal has fired during the job, no stage that has not started is
\* started, and a job that was cancelled before it ended ends with a
\* CancellationError.  Fails: the signal is not consulted between stages.
C14_NoStageStartsAfterCancel ==
    /\ [][cancelled /\ ~cancelledAtStart =>
            \A s \in Stages : stage[s] = "idle" => stage'[s] = "idle"]_vars
    /\ [](cancelled /\ ~cancelledAtStart /\ Exited /\ result.status = "threw"
            => result.error = "CancellationError")

\* C15: when the flow has thrown, every callback it registered has run.
\* Fails: the flow throws without running any callback.
C15_CleanedUpBeforeFailureReachesCaller ==
    pc = "failed" => \A cb \in Range(registry) : cb \in Range(released)

\* C16: callbacks run only in a step of the caller's cleanup hook, after
\* the flow has exited; when the flow has returned and the hook has not
\* fired, server, bundle and browser are acquired, all three callbacks are
\* registered and none has run.
C16_SuccessLeavesResourcesOpen ==
    /\ [][released' # released => Exited /\ runs' = runs + 1]_vars
    /\ [](result.status = "returned" /\ runs = 0 =>
            /\ released = <<>>
            /\ Succeeded("prepareServer") /\ Succeeded("bundle")
            /\ Succeeded("openBrowser")
            /\ Range(registry) =
                   {"closeServer", "cleanupBundle", "closeBrowser"})

C16_Witness ==
    /\ result.status = "returned"
    /\ runs = 0
    /\ released = <<>>
    /\ Len(registry) = 3

\* C17: an error thrown because a collaborator failed carries the name of
\* the stage it came from.  Fails: the rejection is rethrown as it is.
C17_FailureWrappedWithStage ==
    pc = "failed" /\ result.origin \in Stages
        => result.stageName = result.origin

\* The resource a registered callback tears down: cleanupBundle and the
\* deleteDirectory job of onDirectoryCreated both remove the bundle's
\* temporary directory.
Target(cb) ==
    CASE cb = "closeBrowser"    -> "browser"
      [] cb = "closeServer"     -> "server"
      [] cb = "cleanupBundle"   -> "bundle"
      [] cb = "deleteDirectory" -> "bundle"

TeardownsOf(r) ==
    {cb \in Range(registry) \cup Range(quitJobs) : Target(cb) = r}

\* C18: no resource is the target of two registered teardown actions, a
\* job that got past the last registration has exactly one per resource,
\* and no callback runs twice.  Fails: the bundle directory gets the
\* deleteDirectory job (line 184) and cleanupBundle (line 213).
C18_OneTeardownPerResource ==
    /\ \A r \in Resources : Cardinality(TeardownsOf(r)) <= 1
    /\ pc \in {"composition", "render", "done"} =>
           \A r \in Resources : Cardinality(TeardownsOf(r)) = 1
    /\ \A i, j \in DOMAIN released : released[i] = released[j] => i = j

\* What the observer reads in an event it was handed earlier: the spread
\* at line 140 copies bundling, copyingState and rendering, but for
\* downloads it copies the reference to the one array (line 314) that the
\* download callback changes in place.
Observed(e) == [e EXCEPT !.downloads = aggregate.downloads]

\* C19: an event that was delivered keeps the content it was delivered
\* with.  Fails: a later download changes the downloads of every earlier
\* event.
C19_DeliveredEventsImmutable ==
    \A i \in DOMAIN deliveries :
        deliveries[i].sink = "onProgress" =>
            Observed(deliveries[i].event[1]) = deliveries[i].event[1]

\* The rendering record a delivery shows.
RenderingShown(d) == d.text[3]

\* C20: a delivery showing frames = 1 (doneIn set) and the summary line
\* exist only once the render has resolved; when the render was rejected,
\* no summary is printed and every rendering record any sink was shown is
\* the one with frames 0 and doneIn null, which the observer was shown.
C20_CompletionSeenOnlyAfterRender ==
    /\ \A i \in DOMAIN deliveries :
           LET r == RenderingShown(deliveries[i]) IN
           (r # Null /\ (r[1].frames = 1 \/ r[1].doneIn # Null))
               => Succeeded("render") /\ pc = "done"
    /\ summary # Null => Succeeded("render") /\ pc = "done"
    /\ Rejected("render") =>
           /\ summary = Null
           /\ \A i \in DOMAIN deliveries :
                  RenderingShown(deliveries[i]) \in
                      {Null, Some([frames |-> 0, doneIn |-> Null,
                                   totalFrames |-> 1,
                                   timeRemainingInMilliseconds |-> Null])}
           /\ \E i \in DOMAIN deliveries :
                  /\ deliveries[i].sink = "onProgress"
                  /\ RenderingShown(deliveries[i]) # Null

C20_Witness ==
    /\ pc = "failed"
    /\ stage["render"] = "cancelled"
    /\ \E i \in DOMAIN deliveries : deliveries[i].sink = "console"

\* C11 (FormatSpec): the decided format is the first defined candidate in
\* the order explicit override, project default, extension of the given
\* output name, fallback, with the label of the tier that won; override
\* png, default jpeg, output name out.webp gives png by explicit override.
C11_FormatPriority ==
    formatDecision # Null =>
        LET in == formatInputs
            d == formatDecision[1]
            override == IF in.imageFormatFromUi # Null
                          THEN in.imageFormatFromUi ELSE in.cliImageFormat
            default == in.configImageFormat
            ext == ExtensionFormat(in.passedOutput)
        IN
        /\ override # Null =>
               d = [format |-> override[1], source |-> "explicit override"]
        /\ override = Null /\ default # Null =>
               d = [format |-> default[1], source |-> "project default"]
        /\ override = Null /\ default = Null /\ ext # Null =>
               d = [format |-> ext[1], source |-> "output filename"]
        /\ override = Null /\ default = Null /\ ext = Null =>
               d = [format |-> "png", source |-> "fallback"]
        /\ (/\ override = Some("png")
            /\ default = Some("jpeg")
            /\ in.passedOutput = Some(<<"out", "webp">>)) =>
               d.format = "png" /\ d.source = "explicit override"

C11_Witness ==
    /\ formatInputs =
           [imageFormatFromUi |-> Null, cliImageFormat |-> Some("png"),
            configImageFormat |-> Some("jpeg"),
            passedOutput |-> Some(<<"out", "webp">>)]
    /\ formatDecision =
           Some([format |-> "png", source |-> "explicit override"])

\* C12: once internalRenderStill has been called, mkdirSync has run and the
\* output's parent directory exists, also when it did not exist when the
\* job started.
C12_ParentExistsBeforeRender ==
    stage["render"] # "idle" => mkdirCalled /\ parentExists

C12_Witness ==
    /\ Running("render")
    /\ ~fsAtStart.parent
    /\ overwrite
    /\ parentExists

\* C13 (TwoRunsSpec): the glyph of the summary line is the one for whether
\* the output file existed when the run started; with no output location
\* given the relative output is MyComp.png; a first run on a path that did
\* not exist prints "+", and the file is there for the second run, whose
\* summary line prints "o".
C13_GlyphReflectsPriorExistence ==
    /\ summary # Null => summary = Some(IF fsAtStart.output THEN "o" ELSE "+")
    /\ (relativeOutputLocation # Null /\ formatInputs = NothingPassed) =>
           relativeOutputLocation = Some(<<"MyComp", "png">>)
    /\ (~secondRun /\ ~fsAtStart.output /\ summary # Null) =>
           summary = Some("+")
    /\ secondRun => fsAtStart.output /\ outputExists /\ firstGlyph # Null
    /\ (secondRun /\ summary # Null) => summary = Some("o")

C13_Witness ==
    /\ secondRun
    /\ firstGlyph = Some("+")
    /\ summary = Some("o")
    /\ relativeOutputLocation = Some(<<"MyComp", "png">>)
====
